---- MODULE Spec2Model ----
(***************************************************************************)
(* membank: dataclass records stored in relational tables.                 *)
(*                                                                         *)
(* The model follows membank/interface.py (LoadMemory, MemoryBlob) and     *)
(* membank/datamapper.py (Mapper).  The storage functions of               *)
(* membank.datamethods and the helpers of membank.utils are not part of    *)
(* the sources at hand; they are modelled from the specification and are   *)
(* marked so where they are defined.                                       *)
(*                                                                         *)
(* One action is one call of the public interface by the single caller.    *)
(* The caller holds one record object (item); put writes the implicit      *)
(* identifier back onto it.  Reopen is a new process opening the same      *)
(* file-backed store, possibly with a record type that gained a field.     *)
(***************************************************************************)
EXTENDS Integers, Sequences, FiniteSets, TLC

\* ------------------------------------------------------------------ bounds
MaxRows == 2
MaxId == 2
MaxVersion == 1
MaxSelectors == 2

\* ------------------------------------------------------- values and errors
Meta == "__meta_dataclasses__"
None == "None"
NULL == 0
NoId == 0
Vals == {1, 2}
Default == 1

OK == "ok"
OutOfSync == "MemoryOutOfSyncError"
GeneralError == "GeneralMemoryError"
FilteringError == "MemoryFilteringError"
AttributeError == "AttributeError"
KeyError == "KeyError"
PicklingError == "PicklingError"

Max(S) == CHOOSE x \in S : \A y \in S : y <= x
Upd(f, k, v) == [x \in DOMAIN f \cup {k} |-> IF x = k THEN v ELSE f[x]]
Without(f, S) == [x \in DOMAIN f \ S |-> f[x]]
Empty == [x \in {} |-> 0]

\* ------------------------------------------------------------ record types
\* The dataclasses the callers use: Dog (no key field), Transaction (key
\* field id), a dataclass defined inside a function (pickle cannot store
\* it), two whose lower-cased names are reserved, and one with a field whose
\* type is another dataclass.
ClassNames == {"dog", "transaction", "local", "put", Meta, "unsupportedtype"}
Evolving == {"dog"}
ExtraFields == <<"color", "weight", "age">>

BaseFields(c) ==
    CASE c = "dog" -> {"breed"}
      [] c = "transaction" -> {"id", "amount"}
      [] c = "local" -> {"name"}
      [] c = "unsupportedtype" -> {"done"}
      [] OTHER -> {"id"}

ClassFields(c, v) == BaseFields(c) \cup {ExtraFields[i] : i \in 1..v}

KeyField(c) == IF c = "transaction" THEN "id" ELSE None

Picklable(c) == c # "local"

\* Fields whose declared type is itself a dataclass.
NestedFields(c) == IF c = "unsupportedtype" THEN {"done"} ELSE {}

\* Attribute names of a LoadMemory object (dir(self)) that a lower-cased
\* class name can equal.
DirSelf == {"put", "get", "delete", "sync", "reset", "clean_all_data"}

\* A record object held by the caller.  id is the implicit identifier that
\* put writes back; it stays NoId for a type with a key field.
MkItem(c, fs, vs) == [cls |-> c, fields |-> fs, vals |-> vs, key |-> KeyField(c), id |-> NoId]

NotRecord == [cls |-> "str", fields |-> {}, vals |-> Empty, key |-> None, id |-> NoId]

VarFields(c) == IF c = "dog" THEN {"breed"} ELSE {}

Items(c, v) ==
    {MkItem(c, ClassFields(c, v),
            [f \in ClassFields(c, v) |-> IF f \in VarFields(c) THEN w[f] ELSE Default])
       : w \in [VarFields(c) -> Vals]}

\* The row object Mapper.put_class hands to update_item.
TableClass(table, classload) ==
    [cls |-> "tableclass", fields |-> {"table", "classload"},
     vals |-> [f \in {"table", "classload"} |-> IF f = "table" THEN table ELSE classload],
     key |-> None, id |-> NoId]

\* bundle_item that finds no key field.
bundle_item_nokey(it) == None

bundle_item(it) == it.key

\* ------------------------------------------------- membank.utils (spec)
assert_table_name(it) ==
    IF it.cls \in ClassNames THEN [res |-> OK, name |-> it.cls]
    ELSE [res |-> GeneralError, name |-> ""]

get_class_name(c) == c

\* -------------------------------------------- membank.datamethods (spec)
\* The engine is e = [tables, rows]: tables maps a table name to its
\* schema [cols, pk], rows maps it to the sequence of its rows in insertion
\* order.  A table handle (sqlalchemy Table) carries the name and the
\* schema the metadata cache held when the handle was taken.
Handle(name, md) == [py |-> "Table", name |-> name, cols |-> md[name].cols, pk |-> md[name].pk]
PyStr(s) == [py |-> "str", val |-> s]

\* create_table builds one column per field from the field's type; a field
\* of a dataclass type has no column type and is refused before the engine
\* is touched.
assert_flat(it) == IF NestedFields(it.cls) = {} THEN OK ELSE GeneralError

NextId(rs) == IF Len(rs) = 0 THEN 1 ELSE 1 + Max({rs[i]["id"] : i \in 1..Len(rs)})

create_table(name, it, e) ==
    IF name \in DOMAIN e.tables THEN e
    ELSE LET k == IF name = Meta THEN "table" ELSE bundle_item(it)
             schema == [cols |-> it.fields \cup (IF k = None THEN {"id"} ELSE {}),
                        pk |-> IF k = None THEN "id" ELSE k]
         IN [tables |-> Upd(e.tables, name, schema), rows |-> Upd(e.rows, name, <<>>)]

update_item(sql_table, e, it, key) ==
    LET n == sql_table.name
        cols == e.tables[n].cols
        rs == e.rows[n]
        idcol == IF key # None THEN key ELSE "id"
        ident == IF key # None THEN it.vals[key] ELSE it.id
        hit == IF idcol \in cols THEN {i \in 1..Len(rs) : rs[i][idcol] = ident} ELSE {}
        auto == "id" \in cols /\ "id" \notin it.fields
        newid == IF auto THEN NextId(rs) ELSE NoId
        merged(old) == [c \in cols |-> IF c \in it.fields THEN it.vals[c] ELSE old[c]]
        fresh == [c \in cols |-> IF c \in it.fields THEN it.vals[c]
                                 ELSE IF c = "id" THEN newid ELSE NULL]
    IN IF ~(it.fields \subseteq cols) THEN [res |-> OutOfSync, e |-> e, item |-> it]
       ELSE IF hit # {}
            THEN [res |-> OK,
                  e |-> [e EXCEPT !.rows[n] = [i \in 1..Len(rs) |-> IF i \in hit THEN merged(rs[i]) ELSE rs[i]]],
                  item |-> it]
            ELSE [res |-> OK,
                  e |-> [e EXCEPT !.rows[n] = Append(rs, fresh)],
                  item |-> IF key = None /\ auto THEN [it EXCEPT !.id = newid] ELSE it]

\* Rows of sql_table whose columns equal the given values.
Matching(sql_table, e, matching) ==
    LET rs == e.rows[sql_table.name]
    IN SelectSeq(rs, LAMBDA r : \A c \in DOMAIN matching : r[c] = matching[c])

Decode(row, c, fs) ==
    [cls |-> c, fields |-> fs, vals |-> [f \in fs |-> row[f]], key |-> KeyField(c),
     id |-> IF "id" \in DOMAIN row /\ "id" \notin fs THEN row["id"] ELSE NoId]

get_list(sql_table, e, return_class, matching) ==
    LET cols == e.tables[sql_table.name].cols
        found == Matching(sql_table, e, matching)
    IN IF ~(DOMAIN matching \subseteq cols) \/ ~(return_class.fields \subseteq cols)
       THEN [res |-> OutOfSync, val |-> <<>>]
       ELSE [res |-> OK,
             val |-> [i \in 1..Len(found) |-> Decode(found[i], return_class.cls, return_class.fields)]]

get_item(sql_table, e, return_class, matching) ==
    LET l == get_list(sql_table, e, return_class, matching)
    IN IF l.res # OK THEN [res |-> l.res, val |-> <<>>]
       ELSE [res |-> OK, val |-> SubSeq(l.val, 1, 1)]

\* delete_item(sql_table, engine, **filtering): the caller passes the
\* record's dataclass fields and nothing else.  The row is found by the
\* table's identity column when the fields hold it; an implicit identifier
\* is no dataclass field, and then the fields given are all there is to
\* find rows by.
delete_item(sql_table, e, filtering) ==
    LET n == sql_table.name
        cols == e.tables[n].cols
        pk == e.tables[n].pk
        by == IF pk \in DOMAIN filtering THEN {pk} ELSE DOMAIN filtering
    IN IF ~(DOMAIN filtering \subseteq cols) THEN [res |-> OutOfSync, e |-> e]
       ELSE [res |-> OK,
             e |-> [e EXCEPT !.rows[n] =
                      SelectSeq(e.rows[n], LAMBDA r : ~(\A c \in by : r[c] = filtering[c]))]]

\* dataclasses.asdict(item)
asdict(it) == [f \in it.fields |-> it.vals[f]]

sync_table(sql_table, e, fs) ==
    LET n == sql_table.name
        old == e.tables[n].cols
        new == old \cup fs
    IN [tables |-> [e.tables EXCEPT ![n].cols = new],
        rows |-> [e.rows EXCEPT ![n] =
                    [i \in 1..Len(e.rows[n]) |->
                        [c \in new |-> IF c \in old THEN e.rows[n][i][c] ELSE NULL]]]]

\* MetaData.reflect: tables of the engine the metadata does not hold yet
\* are loaded; MetaData.drop_all / create_all act on the tables it holds.
reflect(md, e) ==
    [n \in DOMAIN md \cup DOMAIN e.tables |-> IF n \in DOMAIN md THEN md[n] ELSE e.tables[n]]

drop_all(e, names) == [tables |-> Without(e.tables, names), rows |-> Without(e.rows, names)]

create_all(e, md) ==
    [tables |-> [n \in DOMAIN md \cup DOMAIN e.tables |->
                    IF n \in DOMAIN e.tables THEN e.tables[n] ELSE md[n]],
     rows |-> [n \in DOMAIN md \cup DOMAIN e.tables |->
                    IF n \in DOMAIN e.tables THEN e.rows[n] ELSE <<>>]]

\* ------------------------------------------------- datamapper.Mapper
\* Mapper.__init__: creates the registry table when the metadata handed in
\* does not hold it, then reflects the engine into that same metadata.
Mapper_init(e, md) ==
    LET e1 == IF Meta \notin DOMAIN md THEN create_table(Meta, TableClass("", ""), e) ELSE e
    IN [e |-> e1, md |-> reflect(md, e1)]

\* The registry's own handle (Mapper.sql_table).
MapperTable(e) == [py |-> "Table", name |-> Meta, cols |-> e.tables[Meta].cols, pk |-> e.tables[Meta].pk]

\* pickle stores a class by reference (module and qualified name): dumps
\* fails for a class defined inside a function, loads gives the class of
\* that name as the running process defines it.
pickle_dumps(c) == IF Picklable(c) THEN [res |-> OK, val |-> c] ELSE [res |-> PicklingError, val |-> ""]

\* Mapper.get_class(table): reads table.name.  A str has no attribute name.
get_class(table, e, classes) ==
    IF table.py # "Table" THEN [res |-> AttributeError, cls |-> "", fields |-> {}]
    ELSE LET g == get_item(MapperTable(e), e,
                           [cls |-> "tableclass", fields |-> {"table", "classload"}],
                           [f \in {"table"} |-> table.name])
         IN IF g.res # OK THEN [res |-> g.res, cls |-> "", fields |-> {}]
            ELSE IF g.val = <<>> THEN [res |-> AttributeError, cls |-> "", fields |-> {}]
            ELSE LET c == g.val[1].vals["classload"]
                 IN [res |-> OK, cls |-> c, fields |-> ClassFields(c, classes[c])]

\* Mapper.put_class(table, table_class)
put_class(table, c, e) ==
    LET p == pickle_dumps(c)
    IN IF p.res # OK THEN [res |-> p.res, e |-> e]
       ELSE LET u == update_item(MapperTable(e), e, TableClass(table, p.val), "table")
            IN [res |-> u.res, e |-> u.e]

\* ------------------------------------------------ interface.LoadMemory
\* LoadMemory.__refresh_state: a new MetaData reflected from the engine.
refresh_state(e) == reflect(Empty, e)

\* LoadMemory._get_class(name): hands the name, a str, to Mapper.get_class.
LoadMemory_get_class(name, e, classes) == get_class(PyStr(name), e, classes)

\* The result of one call: what the caller gets (res, val), the store after
\* it (e, md), the caller's record (item) and the storage attempts, caught
\* out-of-sync signals and sync calls of the call, in order (trace).
Out(res, val, e, md, it, trace) ==
    [res |-> res, val |-> val, e |-> e, md |-> md, item |-> it, trace |-> trace]

NoVal == [kind |-> "none"]

\* LoadMemory.sync(obj)
sync(e, md, c, fs) ==
    LET table == get_class_name(c)
        p == put_class(table, c, e)
    IN IF p.res # OK THEN [res |-> p.res, e |-> p.e, md |-> md]
       ELSE IF table \notin DOMAIN md THEN [res |-> KeyError, e |-> p.e, md |-> md]
       ELSE LET e2 == sync_table(Handle(table, md), p.e, fs)
            IN [res |-> OK, e |-> e2, md |-> refresh_state(e2)]

\* A put that synchronises the record's class before it writes.
put_write_eager(e, md, it, table, classes) ==
    LET key == bundle_item(it)
        s == sync(e, md, it.cls, it.fields)
        u == update_item(Handle(table, s.md), s.e, it, key)
    IN IF s.res # OK THEN Out(s.res, NoVal, s.e, s.md, it, <<"sync">>)
       ELSE Out(u.res, NoVal, u.e, s.md, u.item, <<"sync", "attempt">>)

\* LoadMemory.put, lines 197-205: the write, and the repair after an
\* out-of-sync signal.
put_write(e, md, it, table, classes) ==
    LET key == bundle_item(it)
        u1 == update_item(Handle(table, md), e, it, key)
        gc == LoadMemory_get_class(table, e, classes)
        s == sync(e, md, gc.cls, gc.fields)
        u2 == update_item(Handle(table, s.md), s.e, it, key)
    IN IF table \notin DOMAIN md THEN Out(GeneralError, NoVal, e, md, it, <<>>)
       ELSE IF u1.res # OutOfSync THEN Out(u1.res, NoVal, u1.e, md, u1.item, <<"attempt">>)
       ELSE IF gc.res # OK THEN Out(gc.res, NoVal, e, md, it, <<"attempt", "oos">>)
       ELSE IF s.res # OK THEN Out(s.res, NoVal, s.e, s.md, it, <<"attempt", "oos", "sync">>)
       ELSE Out(u2.res, NoVal, u2.e, s.md, u2.item, <<"attempt", "oos", "sync", "attempt">>)

\* A put that takes no name as reserved.
reserved_never(table) == FALSE

\* LoadMemory.put, line 191: the name is an attribute of the store or the
\* registry's.
reserved(table) == table \in DirSelf \/ table = Meta

\* A put that registers on every call.
unregistered_always(table, md) == TRUE

\* LoadMemory.put, line 190: the metadata cache does not hold the table.
unregistered(table, md) == table \notin DOMAIN md \/ table = Meta

\* LoadMemory.put
put(e, md, it, classes) ==
    LET a == assert_table_name(it)
        table == a.name
        new == unregistered(table, md)
        e1 == create_table(table, it, e)
        p == put_class(table, it.cls, e1)
    IN IF a.res # OK THEN Out(a.res, NoVal, e, md, it, <<>>)
       ELSE IF ~new THEN put_write(e, md, it, table, classes)
       ELSE IF reserved(table) THEN Out(GeneralError, NoVal, e, md, it, <<>>)
       ELSE IF assert_flat(it) # OK THEN Out(GeneralError, NoVal, e, md, it, <<>>)
       ELSE IF p.res # OK THEN Out(p.res, NoVal, p.e, md, it, <<>>)
       ELSE put_write(p.e, refresh_state(p.e), it, table, classes)

\* A delete that creates the table it does not find.
delete_creating(e, md, it) ==
    LET a == assert_table_name(it)
        e1 == create_table(a.name, it, e)
    IN IF a.res # OK THEN Out(a.res, NoVal, e, md, it, <<>>)
       ELSE IF a.name \notin DOMAIN md THEN Out(OK, NoVal, e1, refresh_state(e1), it, <<>>)
       ELSE Out(OK, NoVal, e, md, it, <<>>)

\* LoadMemory.delete
delete(e, md, it) ==
    LET a == assert_table_name(it)
        d == delete_item(Handle(a.name, md), e, asdict(it))
    IN IF a.res # OK THEN Out(a.res, NoVal, e, md, it, <<>>)
       ELSE IF a.name \notin DOMAIN md THEN Out(GeneralError, NoVal, e, md, it, <<>>)
       ELSE Out(d.res, NoVal, d.e, md, it, <<"attempt">>)

\* A reset that does not build a new Mapper.
reset_bare(e, md, it) == Out(OK, NoVal, drop_all(e, DOMAIN md), Empty, it, <<>>)

\* LoadMemory.reset
reset(e, md, it) ==
    LET e1 == drop_all(e, DOMAIN md)
        m == Mapper_init(e1, Empty)
    IN Out(OK, NoVal, m.e, m.md, it, <<>>)

\* LoadMemory.clean_all_data
clean_all_data(e, md, it) ==
    LET tables_to_drop == DOMAIN md \ {Meta}
        e1 == drop_all(e, tables_to_drop)
    IN IF Meta \notin DOMAIN md THEN Out(KeyError, NoVal, e, md, it, <<>>)
       ELSE Out(OK, NoVal, create_all(e1, md), md, it, <<>>)

\* ------------------------------------------------ interface.MemoryBlob
NoneVal == [kind |-> "None"]
ListVal(l) == [kind |-> "list", items |-> l]
ItemVal(l) == IF l = <<>> THEN NoneVal ELSE [kind |-> "item", items |-> l]

\* MemoryBlob.__getter(name, **kw), reached as get.<name>(**kw)
getter(e, md, it, name, kw, classes) ==
    LET gc == LoadMemory_get_class(name, e, classes)
        rc == [cls |-> gc.cls, fields |-> gc.fields]
        g1 == get_item(Handle(name, md), e, rc, kw)
        s == sync(e, md, gc.cls, gc.fields)
        g2 == get_item(Handle(name, s.md), s.e, rc, kw)
    IN IF name \notin DOMAIN md THEN Out(GeneralError, NoVal, e, md, it, <<>>)
       ELSE IF gc.res # OK THEN Out(gc.res, NoVal, e, md, it, <<>>)
       ELSE IF g1.res # OutOfSync
            THEN Out(g1.res, IF g1.res = OK THEN ItemVal(g1.val) ELSE NoVal, e, md, it, <<"attempt">>)
       ELSE IF s.res # OK THEN Out(s.res, NoVal, s.e, s.md, it, <<"attempt", "oos", "sync">>)
       ELSE Out(g2.res, IF g2.res = OK THEN ItemVal(g2.val) ELSE NoVal, s.e, s.md, it,
                <<"attempt", "oos", "sync", "attempt">>)

\* What the caller passes to get(...): a table name, or a Comparison built
\* by attribute access on the store (LoadMemory.__getattr__), a pair of the
\* table handle and the operation.  The handle of a table the metadata
\* does not hold has no name.
Name(n) == [py |-> "str", on |-> n, val |-> n]
Comparison(n, col, v, md) ==
    [py |-> "tuple", on |-> n,
     table |-> IF n \in DOMAIN md THEN Handle(n, md)
               ELSE [py |-> "NoTable", name |-> "", cols |-> {}, pk |-> ""],
     op |-> [col |-> col, val |-> v]]

\* A loop that never compares the table names.
mismatch_never(previous_name, table_name) == FALSE

\* MemoryBlob.__call__, line 76: the instruction names another table than
\* the one before it.
mismatch(previous_name, table_name) == previous_name # "" /\ previous_name # table_name

\* MemoryBlob.__call__, lines 61-78: the loop over the instructions.
RECURSIVE scan(_, _, _, _, _, _)
scan(instructions, i, previous_name, sql_table, filtering, md) ==
    IF i > Len(instructions)
    THEN [res |-> OK, name |-> previous_name, table |-> sql_table, filtering |-> filtering]
    ELSE LET ins == instructions[i]
             isPair == ins.py = "tuple"
             table_name == IF isPair THEN ins.table.name ELSE ins.val
             stop(r) == [res |-> r, name |-> previous_name, table |-> sql_table, filtering |-> filtering]
         IN IF isPair /\ table_name = "" THEN stop("return []")
            ELSE IF ~isPair /\ table_name \notin DOMAIN md THEN stop(GeneralError)
            ELSE IF mismatch(previous_name, table_name) THEN stop(FilteringError)
            ELSE scan(instructions, i + 1, table_name,
                      IF isPair THEN ins.table ELSE Handle(table_name, md),
                      IF isPair THEN Append(filtering, ins.op) ELSE filtering, md)

Filters(filtering) ==
    [c \in {filtering[i].col : i \in 1..Len(filtering)} |->
        (CHOOSE i \in 1..Len(filtering) : filtering[i].col = c) ]

\* MemoryBlob.__call__(*instructions), reached as get(...)
call(e, md, it, instructions, classes) ==
    LET sc == scan(instructions, 1, "", [py |-> "NoTable", name |-> "", cols |-> {}, pk |-> ""], <<>>, md)
        gc == LoadMemory_get_class(sc.name, e, classes)
        rc == [cls |-> gc.cls, fields |-> gc.fields]
        m == [c \in DOMAIN Filters(sc.filtering) |-> sc.filtering[Filters(sc.filtering)[c]].val]
        g1 == get_list(sc.table, e, rc, m)
        s == sync(e, md, gc.cls, gc.fields)
        g2 == get_list(Handle(sc.name, s.md), s.e, rc, m)
    IN IF Len(instructions) = 0 THEN Out(GeneralError, NoVal, e, md, it, <<>>)
       ELSE IF sc.res = "return []" THEN Out(OK, ListVal(<<>>), e, md, it, <<>>)
       ELSE IF sc.res # OK THEN Out(sc.res, NoVal, e, md, it, <<>>)
       ELSE IF gc.res # OK THEN Out(gc.res, NoVal, e, md, it, <<>>)
       ELSE IF g1.res # OutOfSync
            THEN Out(g1.res, IF g1.res = OK THEN ListVal(g1.val) ELSE NoVal, e, md, it, <<"attempt">>)
       ELSE IF s.res # OK THEN Out(s.res, NoVal, s.e, s.md, it, <<"attempt", "oos", "sync">>)
       ELSE Out(g2.res, IF g2.res = OK THEN ListVal(g2.val) ELSE NoVal, s.e, s.md, it,
                <<"attempt", "oos", "sync", "attempt">>)

\* LoadMemory.__init__ on an engine: reflect, then the Mapper.
open(e) == Mapper_init(e, refresh_state(e))

\* ---------------------------------------------------------------- state
VARIABLES engine, metadata, classes, item, ret, callers
vars == <<engine, metadata, classes, item, ret, callers>>

\* What the caller saw of its last call: the operation, its argument, the
\* keyword arguments, the result (OK or the exception), the value returned,
\* the trace of the call, and whether the call repeated the successful put
\* just before it with the same record.
Ret(op, arg, o, again) ==
    [op |-> op, arg |-> arg, kw |-> Empty, res |-> o.res, val |-> o.val, trace |-> o.trace,
     again |-> again]
Quiet(op) ==
    [op |-> op, arg |-> None, kw |-> Empty, res |-> OK, val |-> NoVal, trace |-> <<>>,
     again |-> FALSE]

EmptyEngine == [tables |-> Empty, rows |-> Empty]

Init ==
    /\ engine = open(EmptyEngine).e
    /\ metadata = open(EmptyEngine).md
    /\ classes = [c \in ClassNames |-> 0]
    /\ item = NotRecord
    /\ ret = Quiet("open")
    /\ callers = Empty

\* The model's bounds on the engine a call leaves behind.
RECURSIVE Total(_, _)
Total(f, S) == IF S = {} THEN 0 ELSE LET n == CHOOSE x \in S : TRUE IN Len(f[n]) + Total(f, S \ {n})

InBounds(e) ==
    /\ Total(e.rows, DOMAIN e.rows \ {Meta}) <= MaxRows
    /\ \A n \in DOMAIN e.rows : \A i \in 1..Len(e.rows[n]) :
          e.tables[n].pk = "id" => e.rows[n][i]["id"] <= MaxId

Apply(op, arg, o) ==
    /\ InBounds(o.e)
    /\ engine' = o.e
    /\ metadata' = o.md
    /\ item' = o.item
    /\ ret' = Ret(op, arg, o, op = "put" /\ ret.op = "put" /\ ret.res = OK)
    /\ UNCHANGED <<classes, callers>>

\* The caller constructs a record, or takes something that is no record.
Construct ==
    /\ \E c \in ClassNames : item' \in Items(c, classes[c]) \cup {NotRecord}
    /\ ret' = Quiet("construct")
    /\ UNCHANGED <<engine, metadata, classes, callers>>

\* The caller assigns a field of the record it holds.
Assign ==
    /\ \E f \in VarFields(item.cls) : \E v \in Vals :
          /\ item.vals[f] # v
          /\ item' = [item EXCEPT !.vals[f] = v]
    /\ ret' = Quiet("assign")
    /\ UNCHANGED <<engine, metadata, classes, callers>>

Put == Apply("put", item.cls, put(engine, metadata, item, classes))

Delete == Apply("delete", item.cls, delete(engine, metadata, item))

TableNames == {"dog", "transaction"}

\* The column and value that identify the record: its key field, or the
\* implicit identifier once put has written it back.
Ident(it) ==
    IF it.key # None THEN [c \in {it.key} |-> it.vals[it.key]]
    ELSE IF it.id # NoId THEN [c \in {"id"} |-> it.id]
    ELSE Empty

\* get.<n>() and get.<n>(id=...) with the identity of the record held.
Keywords(n, it) == {Empty} \cup (IF it.cls = n THEN {Ident(it)} ELSE {})

ApplyKw(op, arg, kw, o) ==
    /\ InBounds(o.e)
    /\ engine' = o.e
    /\ metadata' = o.md
    /\ item' = o.item
    /\ ret' = [Ret(op, arg, o, FALSE) EXCEPT !.kw = kw]
    /\ UNCHANGED <<classes, callers>>

Getter ==
    \E n \in TableNames : \E kw \in Keywords(n, item) :
        ApplyKw("getter", n, kw, getter(engine, metadata, item, n, kw, classes))

Selectors == {Name("dog")} \cup {Comparison(n, "id", 1, metadata) : n \in TableNames}
Instructions == UNION {[1..k -> Selectors] : k \in 0..MaxSelectors}

Call == \E ins \in Instructions : Apply("get", ins, call(engine, metadata, item, ins, classes))

Sync == \E c \in TableNames :
           Apply("sync", c, LET s == sync(engine, metadata, c, ClassFields(c, classes[c]))
                            IN Out(s.res, NoVal, s.e, s.md, item, <<>>))

Reset == Apply("reset", None, reset(engine, metadata, item))

CleanAllData == Apply("clean_all_data", None, clean_all_data(engine, metadata, item))

\* A new process opens the same store; the source of a record type may have
\* gained a field since.  Records of the old process are gone.
Reopen ==
    /\ \E c \in Evolving : classes' \in {classes} \cup
            (IF classes[c] < MaxVersion THEN {[classes EXCEPT ![c] = @ + 1]} ELSE {})
    /\ engine' = open(engine).e
    /\ metadata' = open(engine).md
    /\ item' = NotRecord
    /\ ret' = Quiet("open")
    /\ UNCHANGED callers

Next ==
    \/ Construct
    \/ Assign
    \/ Put
    \/ Delete
    \/ Getter
    \/ Call
    \/ Sync
    \/ Reset
    \/ CleanAllData
    \/ Reopen

Spec == Init /\ [][Next]_vars

\* ------------------------------------------- two callers, one store
\* Two callers (threads of one process) put into the same LoadMemory object
\* at the same time.  Nothing in LoadMemory.put takes a lock, so a caller
\* can be overtaken between any two of its statements; one step is one
\* statement of put, or of __refresh_state, which put calls.  A call of the
\* storage layer (create_table, update_item) is one step: the engine
\* isolates it.
Callers == {1, 2}
NoTable == [py |-> "NoTable", name |-> "", cols |-> {}, pk |-> ""]

Caller(it) == [pc |-> "check", item |-> it, table |-> "", sql_table |-> NoTable, res |-> None]

FirstPutInit ==
    /\ engine = open(EmptyEngine).e
    /\ metadata = open(EmptyEngine).md
    /\ classes = [c \in ClassNames |-> 0]
    /\ item = NotRecord
    /\ ret = Quiet("open")
    /\ \E c \in TableNames \cup {"put"} : callers \in [Callers -> {Caller(it) : it \in Items(c, 0)}]

Goto(t, pc) == callers' = [callers EXCEPT ![t].pc = pc]
Raise(t, res) == callers' = [callers EXCEPT ![t].pc = "done", ![t].res = res]

\* lines 189-193: the table name, the look into the metadata cache, and
\* the reserved names.
Check(t) ==
    LET a == assert_table_name(callers[t].item)
    IN /\ callers[t].pc = "check"
       /\ IF a.res # OK THEN Raise(t, a.res)
          ELSE IF ~unregistered(a.name, metadata)
               THEN callers' = [callers EXCEPT ![t].pc = "get_sql_table", ![t].table = a.name]
          ELSE IF reserved(a.name) THEN Raise(t, GeneralError)
          ELSE callers' = [callers EXCEPT ![t].pc = "create_table", ![t].table = a.name]
       /\ UNCHANGED <<engine, metadata, classes, item, ret>>

\* line 194
CreateTable(t) ==
    /\ callers[t].pc = "create_table"
    /\ IF assert_flat(callers[t].item) # OK
       THEN Raise(t, GeneralError) /\ UNCHANGED engine
       ELSE Goto(t, "put_class") /\ engine' = create_table(callers[t].table, callers[t].item, engine)
    /\ UNCHANGED <<metadata, classes, item, ret>>

\* line 195
PutClass(t) ==
    LET p == put_class(callers[t].table, callers[t].item.cls, engine)
    IN /\ callers[t].pc = "put_class"
       /\ engine' = p.e
       /\ IF p.res # OK THEN Raise(t, p.res) ELSE Goto(t, "new_metadata")
       /\ UNCHANGED <<metadata, classes, item, ret>>

\* line 196 calling line 153: the store gets a new, empty MetaData.
NewMetadata(t) ==
    /\ callers[t].pc = "new_metadata"
    /\ metadata' = Empty
    /\ Goto(t, "reflect")
    /\ UNCHANGED <<engine, classes, item, ret>>

\* line 154: the MetaData the store holds now is filled from the engine.
Reflect(t) ==
    /\ callers[t].pc = "reflect"
    /\ metadata' = reflect(metadata, engine)
    /\ Goto(t, "get_sql_table")
    /\ UNCHANGED <<engine, classes, item, ret>>

\* line 197
GetSqlTable(t) ==
    /\ callers[t].pc = "get_sql_table"
    /\ IF callers[t].table \notin DOMAIN metadata THEN Raise(t, GeneralError)
       ELSE callers' = [callers EXCEPT ![t].pc = "update_item",
                                       ![t].sql_table = Handle(callers[t].table, metadata)]
    /\ UNCHANGED <<engine, metadata, classes, item, ret>>

\* lines 198-205: the write with the handle taken at line 197, and the
\* repair when the write raises the out-of-sync signal.
UpdateItem(t) ==
    LET h == callers[t].sql_table
        md == Upd(metadata, h.name, [cols |-> h.cols, pk |-> h.pk])
        o == put_write(engine, md, callers[t].item, callers[t].table, classes)
    IN /\ callers[t].pc = "update_item"
       /\ engine' = o.e
       /\ metadata' = IF o.md = md THEN metadata ELSE o.md
       /\ callers' = [callers EXCEPT ![t].pc = "done", ![t].res = o.res, ![t].item = o.item]
       /\ UNCHANGED <<classes, item, ret>>

FirstPutNext ==
    \E t \in Callers :
        \/ Check(t)
        \/ CreateTable(t)
        \/ PutClass(t)
        \/ NewMetadata(t)
        \/ Reflect(t)
        \/ GetSqlTable(t)
        \/ UpdateItem(t)

FirstPutSpec == FirstPutInit /\ [][FirstPutNext]_vars

\* =============================================================== claims
UserTables(e) == DOMAIN e.tables \ {Meta}
Registry(e) == e.rows[Meta]
Snapshots(e, n) == {i \in 1..Len(Registry(e)) : Registry(e)[i]["table"] = n}
Count(trace, ev) == Cardinality({i \in 1..Len(trace) : trace[i] = ev})
Facade == {"put", "getter", "get"}

\* C1: put is idempotent: a put that repeats the successful put just before
\* it, with the same record, succeeds and leaves every table and every row
\* of the engine as the first put left them; for a type with a key field
\* and for a type with the implicit identifier.
C1_PutIdempotent ==
    [][(ret'.op = "put" /\ ret'.again) =>
          /\ ret'.res = OK
          /\ engine' = engine
          /\ item' = item]_vars

C1_Witness ==
    /\ ret.op = "put" /\ ret.again /\ ret.res = OK
    /\ item.cls = "dog" /\ item.id # NoId
    /\ "transaction" \in DOMAIN engine.rows /\ Len(engine.rows["transaction"]) = 1

C4_AtomicRegistration ==
    (ret.op = "put" /\ ret.res = PicklingError) =>
        /\ ret.arg \notin DOMAIN engine.tables
        /\ Snapshots(engine, ret.arg) = {}

\* C5: every table of the engine other than the registry has exactly one
\* snapshot row in the registry, the registry has none for itself, and no
\* snapshot row names a table that does not exist.
C5_OneSnapshotPerTable ==
    /\ \A n \in UserTables(engine) : Cardinality(Snapshots(engine, n)) = 1
    /\ Snapshots(engine, Meta) = {}
    /\ \A i \in 1..Len(Registry(engine)) : Registry(engine)[i]["table"] \in UserTables(engine)

\* C6: clean_all_data wipes rows and keeps the schema: every table is still
\* there with its columns, the registry is as it was, every other table is
\* empty; a get(table_name) right after it returns an empty sequence and a
\* put of a registered type right after it succeeds without registering.
C6_WipeKeepsSchema ==
    [][/\ ret'.op = "clean_all_data" =>
            /\ ret'.res = OK
            /\ engine'.tables = engine.tables
            /\ Registry(engine') = Registry(engine)
            /\ \A n \in UserTables(engine') : engine'.rows[n] = <<>>
       /\ (ret.op = "clean_all_data" /\ ret'.op = "get" /\ Len(ret'.arg) = 1
             /\ ret'.arg[1].py = "str" /\ ret'.arg[1].on \in UserTables(engine)) =>
            /\ ret'.res = OK
            /\ ret'.val = ListVal(<<>>)
       /\ (ret.op = "clean_all_data" /\ ret'.op = "put" /\ ret'.arg \in UserTables(engine)
             /\ Snapshots(engine, ret'.arg) # {}) =>
            /\ ret'.res = OK
            /\ Registry(engine') = Registry(engine)
            /\ metadata' = metadata]_vars

\* C7: reset is a full wipe that leaves the store usable: after it no user
\* table and no snapshot row is left, the registry table is there again,
\* empty, in the engine and in the metadata cache, and a put of a valid
\* record right after it registers the type and succeeds.
ValidTypes == {"dog", "transaction", "local"}

C7_ResetLeavesUsableStore ==
    [][/\ ret'.op = "reset" =>
            /\ ret'.res = OK
            /\ DOMAIN engine'.tables = {Meta}
            /\ Registry(engine') = <<>>
            /\ DOMAIN metadata' = {Meta}
       /\ (ret.op = "reset" /\ ret'.op = "put" /\ item.cls \in ValidTypes) =>
            /\ ret'.res = OK
            /\ item.cls \in DOMAIN engine'.tables
            /\ Cardinality(Snapshots(engine', item.cls)) = 1]_vars

C9_MissingTableNeverRaises ==
    [][/\ (ret'.op = "getter" /\ ret'.arg \notin DOMAIN engine.tables) =>
            /\ ret'.res = OK /\ ret'.val = NoneVal
            /\ engine' = engine /\ metadata' = metadata
       /\ (ret'.op = "get" /\ Len(ret'.arg) = 1 /\ ret'.arg[1].on \notin DOMAIN engine.tables) =>
            /\ ret'.res = OK /\ ret'.val = ListVal(<<>>)
            /\ engine' = engine /\ metadata' = metadata]_vars

\* C10 (as claimed): whenever the selectors of one get(...) call do not all
\* reference the same table, the call raises FilteringError and returns
\* nothing.
Mixed(arg) == \E i, j \in 1..Len(arg) : arg[i].on # arg[j].on

FirstMissing(arg, md) ==
    IF \A i \in 1..Len(arg) : arg[i].on \in DOMAIN md THEN 0
    ELSE CHOOSE i \in 1..Len(arg) :
            arg[i].on \notin DOMAIN md /\ \A j \in 1..(i - 1) : arg[j].on \in DOMAIN md

FirstMismatch(arg) ==
    IF ~Mixed(arg) THEN 0
    ELSE CHOOSE i \in 1..Len(arg) :
            /\ \E j \in 1..(i - 1) : arg[j].on # arg[i].on
            /\ \A k \in 1..(i - 1) : \A j \in 1..(k - 1) : arg[j].on = arg[k].on

Malformed(it) ==
    \/ it.cls \notin ClassNames
    \/ NestedFields(it.cls) # {}
    \/ it.cls = Meta
    \/ it.cls \in DirSelf

C11_FailedValidationNoEffect ==
    [][(ret'.op = "put" /\ Malformed(item)) =>
          /\ ret'.res = GeneralError
          /\ ret'.trace = <<>>
          /\ engine' = engine
          /\ metadata' = metadata]_vars

C11_Witness ==
    /\ ret.op = "put" /\ ret.res = GeneralError
    /\ item.cls = Meta
    /\ "dog" \in DOMAIN engine.tables /\ Len(engine.rows["dog"]) = 1

\* C12: schema drift is repaired through put: when the table was populated
\* under an old shape of the record type and the type has gained a field, a
\* put of a record of the new shape succeeds after one repair; afterwards
\* the table's columns are the new type's fields, the registry holds one
\* snapshot for the table, and every row stored before keeps its values in
\* the old columns.
Drifted(it, e, md) ==
    /\ it.cls \in UserTables(e)
    /\ it.cls \in DOMAIN md
    /\ ~(it.fields \subseteq e.tables[it.cls].cols)

C12_DriftRepairedByPut ==
    [][(ret'.op = "put" /\ Drifted(item, engine, metadata)) =>
          LET n == item.cls
              old == engine.tables[n].cols
          IN /\ ret'.res = OK
             /\ ret'.trace = <<"attempt", "oos", "sync", "attempt">>
             /\ engine'.tables[n].cols = old \cup item.fields
             /\ Cardinality(Snapshots(engine', n)) = 1
             /\ \A i \in 1..Len(engine.rows[n]) : \A c \in old :
                   engine'.rows[n][i][c] = engine.rows[n][i][c]]_vars

\* C13: put updates in place: when a row with the record's identity is
\* already stored, put overwrites that row; the table has as many rows as
\* before, rows of other identities are as they were, and a get.<table>()
\* by that identity right after the put returns the new field values.
RowsOf(e, n, ident) ==
    {i \in 1..Len(e.rows[n]) : \A c \in DOMAIN ident : e.rows[n][i][c] = ident[c]}

Stored(it, e, md) ==
    /\ it.cls \in UserTables(e)
    /\ it.cls \in DOMAIN md
    /\ it.fields \subseteq e.tables[it.cls].cols
    /\ Ident(it) # Empty
    /\ RowsOf(e, it.cls, Ident(it)) # {}

PutOverwritesStep ==
    (ret'.op = "put" /\ Stored(item, engine, metadata)) =>
          LET n == item.cls
              hit == RowsOf(engine, n, Ident(item))
          IN /\ ret'.res = OK
             /\ Len(engine'.rows[n]) = Len(engine.rows[n])
             /\ \A i \in 1..Len(engine.rows[n]) :
                   IF i \in hit THEN \A f \in item.fields : engine'.rows[n][i][f] = item.vals[f]
                   ELSE engine'.rows[n][i] = engine.rows[n][i]

GetReturnsUpdateStep ==
    (/\ ret.op = "put" /\ ret.res = OK
        /\ ret'.op = "getter" /\ ret'.arg = item.cls
        /\ ret'.kw = Ident(item) /\ ret'.kw # Empty) =>
          /\ ret'.res = OK
          /\ ret'.val.kind = "item"
          /\ ret'.val.items[1].vals = item.vals

C13_UpdateInPlace == [][PutOverwritesStep /\ GetReturnsUpdateStep]_vars

\* C14: delete(record) removes exactly the stored row whose identity equals
\* the record's, whatever the record's other fields hold: the rows of other
\* identities stay as they were, in their order, and a get.<table>() by
\* that identity right after the delete finds nothing.
RECURSIVE Keep(_, _, _)
Keep(rs, i, drop) ==
    IF i > Len(rs) THEN <<>>
    ELSE (IF i \in drop THEN <<>> ELSE <<rs[i]>>) \o Keep(rs, i + 1, drop)

DeleteByIdentityStep ==
    (ret'.op = "delete" /\ Stored(item, engine, metadata)) =>
        LET n == item.cls
        IN /\ ret'.res = OK
           /\ engine'.rows[n] = Keep(engine.rows[n], 1, RowsOf(engine, n, Ident(item)))
           /\ \A t \in DOMAIN engine.rows \ {n} : engine'.rows[t] = engine.rows[t]

GetAfterDeleteStep ==
    (/\ ret.op = "delete" /\ ret.res = OK
     /\ ret'.op = "getter" /\ ret'.arg = item.cls
     /\ ret'.kw = Ident(item) /\ ret'.kw # Empty) =>
        /\ ret'.res = OK
        /\ ret'.val = NoneVal

C14_DeleteByIdentity == [][DeleteByIdentityStep /\ GetAfterDeleteStep]_vars

\* C15: round trip: after a put of a record into an empty table, the
\* get.<table>() right after it returns a record whose every declared field
\* equals the field of the record put, a key field the type filled in
\* itself included.
C15_RoundTrip ==
    [][(/\ ret.op = "put" /\ ret.res = OK
        /\ item.cls \in UserTables(engine)
        /\ Len(engine.rows[item.cls]) = 1
        /\ ret'.op = "getter" /\ ret'.arg = item.cls /\ ret'.kw = Empty) =>
          /\ ret'.res = OK
          /\ ret'.val.kind = "item"
          /\ ret'.val.items[1].cls = item.cls
          /\ \A f \in item.fields : ret'.val.items[1].vals[f] = item.vals[f]]_vars

\* C16: get(table_name) with no filter returns every record stored in the
\* table, each once, in the order in which the records were first put.
\* The engine keeps the rows of a table in that order.
C16_ListInInsertionOrder ==
    [][(/\ ret'.op = "get" /\ Len(ret'.arg) = 1 /\ ret'.arg[1].py = "str"
        /\ ret'.arg[1].on \in UserTables(engine)
        /\ ret'.arg[1].on \in DOMAIN metadata) =>
          LET n == ret'.arg[1].on
              rs == engine.rows[n]
          IN /\ ret'.res = OK
             /\ ret'.val.kind = "list"
             /\ Len(ret'.val.items) = Len(rs)
             /\ \A i \in 1..Len(rs) :
                   \A f \in DOMAIN ret'.val.items[i].vals : ret'.val.items[i].vals[f] = rs[i][f]]_vars

\* C17: the metadata cache is never stale at an operation boundary: after
\* every put that created a table, every sync, reset and clean_all_data,
\* whether it returned or raised, the tables and columns of the metadata
\* cache are the tables and columns of the engine.
SchemaMutating ==
    \/ ret'.op \in {"sync", "reset", "clean_all_data"}
    \/ ret'.op = "put" /\ DOMAIN engine'.tables # DOMAIN engine.tables

C17_CacheNeverStale == [][SchemaMutating => metadata' = engine'.tables]_vars

\* C18: delete of a record whose table does not exist raises and changes
\* nothing: no table is created, no snapshot is written, and the rows of
\* every table, the registry and the metadata cache stay as they were.
C18_DeleteMissingTable ==
    [][(ret'.op = "delete" /\ item.cls \notin DOMAIN engine.tables) =>
          /\ ret'.res = GeneralError
          /\ engine' = engine
          /\ metadata' = metadata]_vars

C18_Witness ==
    /\ ret.op = "delete" /\ ret.res = GeneralError
    /\ item.cls = "transaction"
    /\ "transaction" \notin DOMAIN engine.tables
    /\ "dog" \in DOMAIN engine.tables /\ Len(engine.rows["dog"]) = 1

\* C19: a put of a record whose table already exists, and that raises no
\* out-of-sync signal, changes only rows of that one table: it creates no
\* table, leaves the registry and the metadata cache as they were, and
\* leaves the rows of every other table unchanged.
C19_PutFrame ==
    [][(/\ ret'.op = "put"
        /\ item.cls \in DOMAIN engine.tables
        /\ \A i \in 1..Len(ret'.trace) : ret'.trace[i] # "oos") =>
          /\ engine'.tables = engine.tables
          /\ Registry(engine') = Registry(engine)
          /\ metadata' = metadata
          /\ \A t \in DOMAIN engine.rows \ {item.cls} : engine'.rows[t] = engine.rows[t]]_vars

C19_Witness ==
    /\ ret.op = "put" /\ ret.res = OK /\ ret.again
    /\ item.cls = "transaction"
    /\ "local" \in DOMAIN engine.tables /\ "local" \notin DOMAIN metadata
    /\ "dog" \in DOMAIN engine.tables /\ Len(engine.rows["dog"]) = 1

\* C20: first registration is safe under interleaving without a lock in
\* this layer: when two callers issue the first put of the same new record
\* type on one store at the same time, however their steps interleave, the
\* table and its snapshot are created once, neither put fails, and both
\* records are stored.
BothDone == \A t \in Callers : callers[t].pc = "done"

C20_ConcurrentFirstPut ==
    (BothDone /\ \A t \in Callers : callers[t].item.cls \in TableNames) =>
        \A t \in Callers :
            LET it == callers[t].item
            IN /\ callers[t].res = OK
               /\ it.cls \in UserTables(engine)
               /\ Cardinality(Snapshots(engine, it.cls)) = 1
               /\ Ident(it) # Empty
               /\ RowsOf(engine, it.cls, Ident(it)) # {}

====
